---- MODULE Spec2Model ----
(***************************************************************************)
(* Model of src/ai_bridge.py: the AIFullLifecycleBridge instruction        *)
(* dispatcher, its handlers, the background health poll threads and the    *)
(* read-evaluate loop of start_ai_lifecycle_bridge.                        *)
(*                                                                         *)
(* Python strings are sequences of one-character strings, so that prefix,  *)
(* substring, strip() and lower() are computed and not assumed.  The six   *)
(* non-ASCII characters of the source are written as the symbols           *)
(* CHECK_MARK, CROSS_MARK, MAGNIFIER, TEST_TUBE, FLOPPY and OUTBOX, each   *)
(* one element of a sequence.  The timestamp that log_status puts before   *)
(* each status is left out of a log record: a record is its status text.   *)
(*                                                                         *)
(* Environment outcomes are inputs: whether a file write raises OSError,   *)
(* what a shell command prints, how an HTTP GET ends, what the clock       *)
(* reads.  Not modelled: a failure to append to the log file or to spawn   *)
(* a shell or a thread, and KeyboardInterrupt / SystemExit (they are not   *)
(* subclasses of Exception and are caught nowhere).                        *)
(***************************************************************************)
EXTENDS Integers, Sequences, FiniteSets, TLC

VARIABLES
    deployment_url,     \* self.deployment_url (line 18)
    monitoring_active,  \* self.monitoring_active (line 19)
    log,                \* the records of ai_lifecycle.log, oldest first
    fs,                 \* files written under repo_path: a set of [path, content]
    pc,                 \* pc[t]: position of poll thread t in monitor()
    health,             \* health[t]: monitor()'s local variable health
    started,            \* started[t]: the url argument of the call that spawned t
    polled,             \* polled[t]: the url of thread t's latest GET (history)
    mainpc,             \* position of start_ai_lifecycle_bridge's while loop
    last,               \* what the latest loop iteration did (history)
    printed,            \* the text the latest loop iteration printed
    nInstr,             \* lines read so far (bounds the model)
    nStarts,            \* START_MONITORING dispatches that returned their confirmation (history)
    nPolls              \* health checks begun by poll threads (bounds the model)

vars == <<deployment_url, monitoring_active, log, fs, pc, health, started,
          polled, mainpc, last, printed, nInstr, nStarts, nPolls>>

---------------------------------------------------------------------------
(* Bounds of the model.                                                    *)
MaxInstr == 2
MaxThreads == 2
MaxPolls == 1

---------------------------------------------------------------------------
(* String literals of the source, by line.                                 *)
\* line 27: 'FULL_LIFECYCLE_ACTIVE'
S_FULL_LIFECYCLE_ACTIVE == <<"F", "U", "L", "L", "_", "L", "I", "F", "E", "C", "Y", "C", "L", "E", "_", "A", "C", "T", "I", "V", "E">>
\* line 67: 'Error: '
S_ErrorPrefix == <<"E", "r", "r", "o", "r", ":", " ">>
\* line 78
S_Created == <<"CHECK_MARK", " ", "C", "r", "e", "a", "t", "e", "d", ":", " ">>
\* line 77: 'FILE_CREATED: '
S_FILE_CREATED == <<"F", "I", "L", "E", "_", "C", "R", "E", "A", "T", "E", "D", ":", " ">>
\* line 83: 'OUT: '
S_OUT == <<"O", "U", "T", ":", " ">>
\* line 83: '\nERR: '
S_ERR == <<"\n", "E", "R", "R", ":", " ">>
\* line 83: 'Command executed'
S_CommandExecuted == <<"C", "o", "m", "m", "a", "n", "d", " ", "e", "x", "e", "c", "u", "t", "e", "d">>
\* line 84: 'COMMAND_RUN: '
S_COMMAND_RUN == <<"C", "O", "M", "M", "A", "N", "D", "_", "R", "U", "N", ":", " ">>
\* line 89: 'DEPLOYMENT_STARTED: '
S_DEPLOYMENT_STARTED == <<"D", "E", "P", "L", "O", "Y", "M", "E", "N", "T", "_", "S", "T", "A", "R", "T", "E", "D", ":", " ">>
\* line 91: 'github_pages'
S_github_pages == <<"g", "i", "t", "h", "u", "b", "_", "p", "a", "g", "e", "s">>
\* line 92: 'gh pages deploy --branch main'
S_GhPagesCmd == <<"g", "h", " ", "p", "a", "g", "e", "s", " ", "d", "e", "p", "l", "o", "y", " ", "-", "-", "b", "r", "a", "n", "c", "h", " ", "m", "a", "i", "n">>
\* line 94: 'https://yourusername.github.io/your-repo'
S_GhPagesUrl == <<"h", "t", "t", "p", "s", ":", "/", "/", "y", "o", "u", "r", "u", "s", "e", "r", "n", "a", "m", "e", ".", "g", "i", "t", "h", "u", "b", ".", "i", "o", "/", "y", "o", "u", "r", "-", "r", "e", "p", "o">>
\* line 95
S_GhPagesDeployed == <<"CHECK_MARK", " ", "G", "i", "t", "H", "u", "b", " ", "P", "a", "g", "e", "s", " ", "D", "e", "p", "l", "o", "y", "e", "d", ":", " ">>
\* line 97: 'docker'
S_docker == <<"d", "o", "c", "k", "e", "r">>
\* line 98: 'docker build -t app . && docker run -d -p 3000:3000 app'
S_DockerCmd == <<"d", "o", "c", "k", "e", "r", " ", "b", "u", "i", "l", "d", " ", "-", "t", " ", "a", "p", "p", " ", ".", " ", "&", "&", " ", "d", "o", "c", "k", "e", "r", " ", "r", "u", "n", " ", "-", "d", " ", "-", "p", " ", "3", "0", "0", "0", ":", "3", "0", "0", "0", " ", "a", "p", "p">>
\* line 99: 'http://localhost:3000'
S_DockerUrl == <<"h", "t", "t", "p", ":", "/", "/", "l", "o", "c", "a", "l", "h", "o", "s", "t", ":", "3", "0", "0", "0">>
\* line 100
S_DockerDeployed == <<"CHECK_MARK", " ", "D", "o", "c", "k", "e", "r", " ", "D", "e", "p", "l", "o", "y", "e", "d", ":", " ">>
\* line 102: 'vercel'
S_vercel == <<"v", "e", "r", "c", "e", "l">>
\* line 103: 'npx vercel --prod'
S_VercelCmd == <<"n", "p", "x", " ", "v", "e", "r", "c", "e", "l", " ", "-", "-", "p", "r", "o", "d">>
\* line 105: 'https://your-app.vercel.app'
S_VercelUrl == <<"h", "t", "t", "p", "s", ":", "/", "/", "y", "o", "u", "r", "-", "a", "p", "p", ".", "v", "e", "r", "c", "e", "l", ".", "a", "p", "p">>
\* line 106
S_VercelDeployed == <<"CHECK_MARK", " ", "V", "e", "r", "c", "e", "l", " ", "D", "e", "p", "l", "o", "y", "e", "d", ":", " ">>
\* line 108
S_DeploymentInitiated == <<"CHECK_MARK", " ", "D", "e", "p", "l", "o", "y", "m", "e", "n", "t", " ", "i", "n", "i", "t", "i", "a", "t", "e", "d", ":", " ">>
\* line 119: 'ERROR'
S_ERROR == <<"E", "R", "R", "O", "R">>
\* line 120: 'HEALTH_ISSUE: '
S_HEALTH_ISSUE == <<"H", "E", "A", "L", "T", "H", "_", "I", "S", "S", "U", "E", ":", " ">>
\* line 125
S_MonitoringStarted == <<"MAGNIFIER", " ", "M", "o", "n", "i", "t", "o", "r", "i", "n", "g", " ", "s", "t", "a", "r", "t", "e", "d", ":", " ">>
\* line 130: 'No deployment URL set'
S_NoDeploymentUrl == <<"N", "o", " ", "d", "e", "p", "l", "o", "y", "m", "e", "n", "t", " ", "U", "R", "L", " ", "s", "e", "t">>
\* line 135
S_Healthy == <<"CHECK_MARK", " ", "A", "p", "p", "l", "i", "c", "a", "t", "i", "o", "n", " ", "h", "e", "a", "l", "t", "h", "y">>
\* line 137
S_AppIssue == <<"CROSS_MARK", " ", "A", "p", "p", "l", "i", "c", "a", "t", "i", "o", "n", " ", "i", "s", "s", "u", "e", ":", " ", "H", "T", "T", "P", " ">>
\* line 139
S_AppError == <<"CROSS_MARK", " ", "A", "p", "p", "l", "i", "c", "a", "t", "i", "o", "n", " ", "e", "r", "r", "o", "r", ":", " ">>
\* line 143: 'AUTO_FIXING: '
S_AUTO_FIXING == <<"A", "U", "T", "O", "_", "F", "I", "X", "I", "N", "G", ":", " ">>
\* line 145: 'build_failure'
S_build_failure == <<"b", "u", "i", "l", "d", "_", "f", "a", "i", "l", "u", "r", "e">>
\* line 147: 'npm install || pip install -r requirements.txt'
S_BuildFixCmd == <<"n", "p", "m", " ", "i", "n", "s", "t", "a", "l", "l", " ", "|", "|", " ", "p", "i", "p", " ", "i", "n", "s", "t", "a", "l", "l", " ", "-", "r", " ", "r", "e", "q", "u", "i", "r", "e", "m", "e", "n", "t", "s", ".", "t", "x", "t">>
\* line 148
S_BuildFixed == <<"CHECK_MARK", " ", "B", "u", "i", "l", "d", " ", "d", "e", "p", "e", "n", "d", "e", "n", "c", "i", "e", "s", " ", "f", "i", "x", "e", "d">>
\* line 150: 'deployment_failure'
S_deployment_failure == <<"d", "e", "p", "l", "o", "y", "m", "e", "n", "t", "_", "f", "a", "i", "l", "u", "r", "e">>
\* line 154: 'database_connection'
S_database_connection == <<"d", "a", "t", "a", "b", "a", "s", "e", "_", "c", "o", "n", "n", "e", "c", "t", "i", "o", "n">>
\* line 156: 'config/fix_database.py'
S_DbFixPath == <<"c", "o", "n", "f", "i", "g", "/", "f", "i", "x", "_", "d", "a", "t", "a", "b", "a", "s", "e", ".", "p", "y">>
\* line 157: "import sqlite3\n# AI-generated database fix\nconn = sqlite3.connect('app.db')\nprint('Database fixed')"
S_DbFixContent == <<"i", "m", "p", "o", "r", "t", " ", "s", "q", "l", "i", "t", "e", "3", "\n", "#", " ", "A", "I", "-", "g", "e", "n", "e", "r", "a", "t", "e", "d", " ", "d", "a", "t", "a", "b", "a", "s", "e", " ", "f", "i", "x", "\n", "c", "o", "n", "n", " ", "=", " ", "s", "q", "l", "i", "t", "e", "3", ".", "c", "o", "n", "n", "e", "c", "t", "(", "'", "a", "p", "p", ".", "d", "b", "'", ")", "\n", "p", "r", "i", "n", "t", "(", "'", "D", "a", "t", "a", "b", "a", "s", "e", " ", "f", "i", "x", "e", "d", "'", ")">>
\* line 158
S_DbAddressed == <<"CHECK_MARK", " ", "D", "a", "t", "a", "b", "a", "s", "e", " ", "i", "s", "s", "u", "e", "s", " ", "a", "d", "d", "r", "e", "s", "s", "e", "d">>
\* line 160
S_AutoFixAttempted == <<"CHECK_MARK", " ", "A", "u", "t", "o", "-", "f", "i", "x", " ", "a", "t", "t", "e", "m", "p", "t", "e", "d", " ", "f", "o", "r", ":", " ">>
\* line 164: 'ADDING_FEATURE: '
S_ADDING_FEATURE == <<"A", "D", "D", "I", "N", "G", "_", "F", "E", "A", "T", "U", "R", "E", ":", " ">>
\* line 171
S_FeatureOpen == <<"CHECK_MARK", " ", "F", "e", "a", "t", "u", "r", "e", " ", "'">>
\* line 171: "' added and deployed"
S_FeatureClose == <<"'", " ", "a", "d", "d", "e", "d", " ", "a", "n", "d", " ", "d", "e", "p", "l", "o", "y", "e", "d">>
\* line 175: "python -m pytest || npm test || echo 'No tests found'"
S_TestsCmd == <<"p", "y", "t", "h", "o", "n", " ", "-", "m", " ", "p", "y", "t", "e", "s", "t", " ", "|", "|", " ", "n", "p", "m", " ", "t", "e", "s", "t", " ", "|", "|", " ", "e", "c", "h", "o", " ", "'", "N", "o", " ", "t", "e", "s", "t", "s", " ", "f", "o", "u", "n", "d", "'">>
\* line 176
S_TestsExecuted == <<"TEST_TUBE", " ", "T", "e", "s", "t", "s", " ", "e", "x", "e", "c", "u", "t", "e", "d", ":", " ">>
\* line 181: 'git tag backup-'
S_GitTagCmd == <<"g", "i", "t", " ", "t", "a", "g", " ", "b", "a", "c", "k", "u", "p", "-">>
\* line 182: 'git push --tags'
S_GitPushTagsCmd == <<"g", "i", "t", " ", "p", "u", "s", "h", " ", "-", "-", "t", "a", "g", "s">>
\* line 183
S_BackupCreated == <<"FLOPPY", " ", "B", "a", "c", "k", "u", "p", " ", "c", "r", "e", "a", "t", "e", "d", ":", " ", "b", "a", "c", "k", "u", "p", "-">>
\* line 187: 'git add .'
S_GitAddCmd == <<"g", "i", "t", " ", "a", "d", "d", " ", ".">>
\* line 188: 'git commit -m "'
S_GitCommitOpen == <<"g", "i", "t", " ", "c", "o", "m", "m", "i", "t", " ", "-", "m", " ", "\"">>
\* line 188: '"'
S_Quote == <<"\"">>
\* line 189: 'git push origin main'
S_GitPushCmd == <<"g", "i", "t", " ", "p", "u", "s", "h", " ", "o", "r", "i", "g", "i", "n", " ", "m", "a", "i", "n">>
\* line 190
S_Committed == <<"CHECK_MARK", " ", "C", "o", "m", "m", "i", "t", "t", "e", "d", ":", " ">>
\* line 212: 'exit'
S_exit == <<"e", "x", "i", "t">>
\* line 219
S_Result == <<"OUTBOX", " ", "R", "E", "S", "U", "L", "T", ":", " ">>
\* line 222
S_InvalidJson == <<"CROSS_MARK", " ", "I", "n", "v", "a", "l", "i", "d", " ", "J", "S", "O", "N", ".", " ", "T", "r", "y", " ", "a", "g", "a", "i", "n", ".">>
\* line 224
S_MainError == <<"CROSS_MARK", " ", "E", "r", "r", "o", "r", ":", " ">>
\* line 219: 'None'
S_NoneText == <<"N", "o", "n", "e">>
\* str(KeyError(k)) for the payload and instruction keys the code subscripts
KeyText == [path |-> <<"p", "a", "t", "h">>, content |-> <<"c", "o", "n", "t", "e", "n", "t">>, command |-> <<"c", "o", "m", "m", "a", "n", "d">>, deploy_type |-> <<"d", "e", "p", "l", "o", "y", "_", "t", "y", "p", "e">>, url |-> <<"u", "r", "l">>, issue_type |-> <<"i", "s", "s", "u", "e", "_", "t", "y", "p", "e">>, feature_name |-> <<"f", "e", "a", "t", "u", "r", "e", "_", "n", "a", "m", "e">>, files |-> <<"f", "i", "l", "e", "s">>, message |-> <<"m", "e", "s", "s", "a", "g", "e">>, action |-> <<"a", "c", "t", "i", "o", "n">>, payload |-> <<"p", "a", "y", "l", "o", "a", "d">>]
\* str(TypeError) of subscripting a parsed JSON number (line 217)
S_NotSubscriptable == <<"'", "i", "n", "t", "'", " ", "o", "b", "j", "e", "c", "t", " ", "i", "s", " ", "n", "o", "t", " ", "s", "u", "b", "s", "c", "r", "i", "p", "t", "a", "b", "l", "e">>
\* str(EOFError) of input() at end of input (line 210)
S_EofText == <<"E", "O", "F", " ", "w", "h", "e", "n", " ", "r", "e", "a", "d", "i", "n", "g", " ", "a", " ", "l", "i", "n", "e">>

---------------------------------------------------------------------------
(* Python values and string operations.                                    *)

\* Python's None: a one-element sequence no string equals
None == <<"NONE_OBJECT">>

\* `not v` for v a string or None (line 129)
Falsy(v) == v = None \/ v = <<>>

\* f"{v}" for v a string or None (line 219)
Str(v) == IF v = None THEN S_NoneText ELSE v

\* needle in hay, for strings (line 119)
Contains(hay, needle) == \E i \in 0..(Len(hay) - Len(needle)) : SubSeq(hay, i + 1, i + Len(needle)) = needle

\* s.startswith(p)
StartsWith(s, p) == Len(s) >= Len(p) /\ SubSeq(s, 1, Len(p)) = p

Digits == <<"0", "1", "2", "3", "4", "5", "6", "7", "8", "9">>

RECURSIVE IntToStr(_)
\* str(n) for an integer n >= 0 (the status code of line 137)
IntToStr(n) == IF n < 10 THEN <<Digits[n + 1]>> ELSE IntToStr(n \div 10) \o <<Digits[(n % 10) + 1]>>

Upper == <<"A", "B", "C", "D", "E", "F", "G", "H", "I", "J", "K", "L", "M", "N", "O", "P", "Q", "R", "S", "T", "U", "V", "W", "X", "Y", "Z">>
Lowers == <<"a", "b", "c", "d", "e", "f", "g", "h", "i", "j", "k", "l", "m", "n", "o", "p", "q", "r", "s", "t", "u", "v", "w", "x", "y", "z">>

\* one character of str.lower()
LowerChar(c) == IF \E i \in 1..26 : Upper[i] = c THEN Lowers[CHOOSE i \in 1..26 : Upper[i] = c] ELSE c

\* s.lower() (line 212)
Lower(s) == [i \in 1..Len(s) |-> LowerChar(s[i])]

IsSpace(c) == c \in {" ", "\t", "\n", "\r"}

RECURSIVE LStrip(_)
LStrip(s) == IF s # <<>> /\ IsSpace(Head(s)) THEN LStrip(Tail(s)) ELSE s

RECURSIVE RStrip(_)
RStrip(s) == IF s # <<>> /\ IsSpace(s[Len(s)]) THEN RStrip(SubSeq(s, 1, Len(s) - 1)) ELSE s

\* s.strip() (line 210)
Strip(s) == RStrip(LStrip(s))

---------------------------------------------------------------------------
(* The bridge object and the outcome of a call.                            *)
(* A bridge record b is self plus the trace of the current dispatch:       *)
(* cmds the shell commands run, gets the urls requested, spawned the urls  *)
(* of the poll threads started.  An outcome is the bridge after the call   *)
(* and either the value returned or the text of the exception raised.      *)

Ret(b, v) == [b |-> b, raised |-> FALSE, val |-> v]

Raise(b, text) == [b |-> b, raised |-> TRUE, val |-> text]

\* log_status (lines 29-31)
log_status(b, status) == [b EXCEPT !.log = Append(@, status)]

\* open(full_path, 'w'); f.write(content): the file at path now holds content
FsWrite(files, path, content) == {f \in files : f.path # path} \cup {[path |-> path, content |-> content]}

\* create_file as it would be without its log_status call
create_file_NoLog(b, env, filepath, content) ==
    IF filepath \in env.bad
    THEN Raise(b, env.oserr)
    ELSE Ret([b EXCEPT !.fs = FsWrite(@, filepath, content)], S_Created \o filepath)

\* create_file (lines 69-78); env.bad are the paths whose makedirs/open raises OSError
create_file(b, env, filepath, content) ==
    IF filepath \in env.bad
    THEN Raise(b, env.oserr)
    ELSE Ret(log_status([b EXCEPT !.fs = FsWrite(@, filepath, content)], S_FILE_CREATED \o filepath),
             S_Created \o filepath)

\* run_command (lines 80-85); env.so and env.se are the command's stdout and stderr
run_command(b, env, command) ==
    LET output == IF env.so # <<>> \/ env.se # <<>>
                  THEN S_OUT \o env.so \o S_ERR \o env.se
                  ELSE S_CommandExecuted
    IN Ret(log_status([b EXCEPT !.cmds = Append(@, command)], S_COMMAND_RUN \o command), output)

\* deploy_project as it would be if the docker branch did not record its endpoint
deploy_project_DockerNoUrl(b, env, deploy_type) ==
    LET b1 == log_status(b, S_DEPLOYMENT_STARTED \o deploy_type)
    IN IF deploy_type = S_github_pages
       THEN LET b2 == [run_command(b1, env, S_GhPagesCmd).b EXCEPT !.deployment_url = S_GhPagesUrl]
            IN Ret(b2, S_GhPagesDeployed \o b2.deployment_url)
       ELSE IF deploy_type = S_docker
       THEN LET b2 == run_command(b1, env, S_DockerCmd).b
            IN Ret(b2, S_DockerDeployed \o S_DockerUrl)
       ELSE IF deploy_type = S_vercel
       THEN LET b2 == [run_command(b1, env, S_VercelCmd).b EXCEPT !.deployment_url = S_VercelUrl]
            IN Ret(b2, S_VercelDeployed \o b2.deployment_url)
       ELSE Ret(b1, S_DeploymentInitiated \o deploy_type)

\* deploy_project (lines 87-108)
deploy_project(b, env, deploy_type) ==
    LET b1 == log_status(b, S_DEPLOYMENT_STARTED \o deploy_type)
    IN IF deploy_type = S_github_pages
       THEN LET b2 == [run_command(b1, env, S_GhPagesCmd).b EXCEPT !.deployment_url = S_GhPagesUrl]
            IN Ret(b2, S_GhPagesDeployed \o b2.deployment_url)
       ELSE IF deploy_type = S_docker
       THEN LET b2 == [run_command(b1, env, S_DockerCmd).b EXCEPT !.deployment_url = S_DockerUrl]
            IN Ret(b2, S_DockerDeployed \o b2.deployment_url)
       ELSE IF deploy_type = S_vercel
       THEN LET b2 == [run_command(b1, env, S_VercelCmd).b EXCEPT !.deployment_url = S_VercelUrl]
            IN Ret(b2, S_VercelDeployed \o b2.deployment_url)
       ELSE Ret(b1, S_DeploymentInitiated \o deploy_type)

\* start_monitoring as it would be if it started a thread only when none was monitoring
start_monitoring_OneLoop(b, url) ==
    Ret([b EXCEPT !.deployment_url = url, !.monitoring_active = TRUE,
                  !.spawned = IF b.monitoring_active THEN @ ELSE Append(@, url)],
        S_MonitoringStarted \o url)

\* start_monitoring (lines 110-125): the thread started at line 124 is recorded in spawned
start_monitoring(b, url) ==
    Ret([b EXCEPT !.deployment_url = url, !.monitoring_active = TRUE, !.spawned = Append(@, url)],
        S_MonitoringStarted \o url)

\* check_application_health as it would be if line 129 tested `is None`
check_application_health_IsNone(b, env) ==
    IF b.deployment_url = None
    THEN Ret(b, S_NoDeploymentUrl)
    ELSE LET b1 == [b EXCEPT !.gets = Append(@, b.deployment_url)]
         IN IF env.http.kind = "response"
            THEN IF env.http.code = 200
                 THEN Ret(b1, S_Healthy)
                 ELSE Ret(b1, S_AppIssue \o IntToStr(env.http.code))
            ELSE Ret(b1, S_AppError \o env.http.text)

\* check_application_health (lines 127-139); env.http is how the GET ends
check_application_health(b, env) ==
    IF Falsy(b.deployment_url)
    THEN Ret(b, S_NoDeploymentUrl)
    ELSE LET b1 == [b EXCEPT !.gets = Append(@, b.deployment_url)]
         IN IF env.http.kind = "response"
            THEN IF env.http.code = 200
                 THEN Ret(b1, S_Healthy)
                 ELSE Ret(b1, S_AppIssue \o IntToStr(env.http.code))
            ELSE Ret(b1, S_AppError \o env.http.text)

\* auto_fix_issues (lines 141-160)
auto_fix_issues(b, env, issue_type) ==
    LET b1 == log_status(b, S_AUTO_FIXING \o issue_type)
    IN IF issue_type = S_build_failure
       THEN Ret(run_command(b1, env, S_BuildFixCmd).b, S_BuildFixed)
       ELSE IF issue_type = S_deployment_failure
       THEN deploy_project(b1, env, S_github_pages)
       ELSE IF issue_type = S_database_connection
       THEN LET o == create_file(b1, env, S_DbFixPath, S_DbFixContent)
            IN IF o.raised THEN o ELSE Ret(o.b, S_DbAddressed)
       ELSE Ret(b1, S_AutoFixAttempted \o issue_type)

RECURSIVE CreateFiles(_, _, _)
\* the loop of add_feature (lines 166-167) over files.items(), in the mapping's order
CreateFiles(b, env, items) ==
    IF items = <<>>
    THEN Ret(b, None)
    ELSE LET o == create_file(b, env, Head(items)[1], Head(items)[2])
         IN IF o.raised THEN o ELSE CreateFiles(o.b, env, Tail(items))

\* add_feature (lines 162-171); files is the mapping as its sequence of (path, content) items
add_feature(b, env, feature_name, files) ==
    LET o == CreateFiles(log_status(b, S_ADDING_FEATURE \o feature_name), env, files)
    IN IF o.raised
       THEN o
       ELSE Ret(deploy_project(o.b, env, S_github_pages).b, S_FeatureOpen \o feature_name \o S_FeatureClose)

\* run_tests (lines 173-176)
run_tests(b, env) ==
    LET o == run_command(b, env, S_TestsCmd)
    IN Ret(o.b, S_TestsExecuted \o o.val)

\* backup_project (lines 178-183); env.ts is datetime.now() formatted
backup_project(b, env) ==
    LET b1 == run_command(b, env, S_GitTagCmd \o env.ts).b
        b2 == run_command(b1, env, S_GitPushTagsCmd).b
    IN Ret(b2, S_BackupCreated \o env.ts)

\* git_commit (lines 185-190)
git_commit(b, env, message) ==
    LET b1 == run_command(b, env, S_GitAddCmd).b
        b2 == run_command(b1, env, S_GitCommitOpen \o message \o S_Quote).b
        b3 == run_command(b2, env, S_GitPushCmd).b
    IN Ret(b3, S_Committed \o message)

RECURSIVE FirstMissing(_, _)
\* the first key of keys that d[key] raises KeyError for, "" when there is none
FirstMissing(d, keys) ==
    IF keys = <<>> THEN ""
    ELSE IF Head(keys) \notin DOMAIN d THEN Head(keys)
    ELSE FirstMissing(d, Tail(keys))

\* str(KeyError(key))
KeyErrorText(key) == <<"'">> \o KeyText[key] \o <<"'">>

\* the payload keys each branch of execute_ai_instruction subscripts, in order (lines 36-64)
RequiredKeys(instruction_type) ==
    CASE instruction_type = "CREATE_FILE" -> <<"path", "content">>
      [] instruction_type = "RUN_COMMAND" -> <<"command">>
      [] instruction_type = "DEPLOY_PROJECT" -> <<"deploy_type">>
      [] instruction_type = "START_MONITORING" -> <<"url">>
      [] instruction_type = "AUTO_FIX_ISSUES" -> <<"issue_type">>
      [] instruction_type = "ADD_FEATURE" -> <<"feature_name", "files">>
      [] instruction_type = "GIT_COMMIT" -> <<"message">>
      [] OTHER -> <<>>

\* the handler call of each branch of execute_ai_instruction (lines 36-64), its
\* arguments subscripted; no branch matching returns None
Handle(b, env, instruction_type, payload) ==
    CASE instruction_type = "CREATE_FILE" -> create_file(b, env, payload.path, payload.content)
      [] instruction_type = "RUN_COMMAND" -> run_command(b, env, payload.command)
      [] instruction_type = "DEPLOY_PROJECT" -> deploy_project(b, env, payload.deploy_type)
      [] instruction_type = "START_MONITORING" -> start_monitoring(b, payload.url)
      [] instruction_type = "CHECK_HEALTH" -> check_application_health(b, env)
      [] instruction_type = "AUTO_FIX_ISSUES" -> auto_fix_issues(b, env, payload.issue_type)
      [] instruction_type = "ADD_FEATURE" -> add_feature(b, env, payload.feature_name, payload.files)
      [] instruction_type = "GIT_COMMIT" -> git_commit(b, env, payload.message)
      [] instruction_type = "RUN_TESTS" -> run_tests(b, env)
      [] instruction_type = "BACKUP_PROJECT" -> backup_project(b, env)
      [] OTHER -> Ret(b, None)

\* Dispatch as it would be if add_feature were handed the payload and looked files up
\* only after logging
Dispatch_LateLookup(b, env, instruction_type, payload) ==
    LET k == FirstMissing(payload, RequiredKeys(instruction_type))
    IN IF k = "" THEN Handle(b, env, instruction_type, payload)
       ELSE IF instruction_type = "ADD_FEATURE" /\ k = "files"
       THEN Raise(log_status(b, S_ADDING_FEATURE \o payload.feature_name), KeyErrorText(k))
       ELSE Raise(b, KeyErrorText(k))

\* the if/elif chain of execute_ai_instruction (lines 36-64): a branch subscripts the
\* payload for its arguments, raising KeyError, before it calls its handler
Dispatch(b, env, instruction_type, payload) ==
    LET k == FirstMissing(payload, RequiredKeys(instruction_type))
    IN IF k # "" THEN Raise(b, KeyErrorText(k)) ELSE Handle(b, env, instruction_type, payload)

\* execute_ai_instruction as it would be without the except clause
execute_ai_instruction_NoExcept(b, env, instruction_type, payload) ==
    Dispatch(b, env, instruction_type, payload)

\* execute_ai_instruction (lines 33-67): try ... except Exception as e
execute_ai_instruction(b, env, instruction_type, payload) ==
    LET o == Dispatch(b, env, instruction_type, payload)
    IN IF o.raised THEN Ret(o.b, S_ErrorPrefix \o o.val) ELSE o

---------------------------------------------------------------------------
(* Inputs: the lines typed at the prompt and the environment's outcomes.   *)

\* payload values
Url1 == <<"h", "t", "t", "p", ":", "/", "/", "a">>
Url2 == <<"h", "t", "t", "p", ":", "/", "/", "b">>
Path1 == <<"a">>
Path2 == <<"d", "/", "b">>
Content1 == <<"h", "i">>
S_ls == <<"l", "s">>
S_msg == <<"m">>
S_feat == <<"f">>
S_other == <<"o", "t", "h", "e", "r">>

\* lines that are not instructions
T_exit == <<"e", "x", "i", "t">>
T_exit_sp == <<" ", "E", "x", "i", "t", " ">>
T_exits == <<"e", "x", "i", "t", "s">>
T_42 == <<"4", "2">>
\* the text of an instruction line: a JSON object, written out only as far as the loop reads it
T_object == <<"{", "JSON_MEMBERS", "}">>

\* environment outcomes
S_ts == <<"2", "0", "2", "6", "0", "1", "0", "1", "_", "0", "0", "0", "0", "0", "0">>
S_PermissionDenied == <<"P", "e", "r", "m", "i", "s", "s", "i", "o", "n", " ", "d", "e", "n", "i", "e", "d">>
S_TimedOut == <<"t", "i", "m", "e", "d", " ", "o", "u", "t">>
S_TlsAlert == <<"T", "L", "S", "V", "1", "_", "A", "L", "E", "R", "T", "_", "I", "N", "T", "E", "R", "N", "A", "L", "_", "E", "R", "R", "O", "R">>

Restrict(f, K) == [k \in K |-> f[k]]

\* a mapping and each mapping that lacks one of its keys
SubMappings(f) == {f} \cup {Restrict(f, (DOMAIN f) \ {k}) : k \in DOMAIN f}

EmptyPayload == Restrict([url |-> Url1], {})

Actions == {"CREATE_FILE", "RUN_COMMAND", "DEPLOY_PROJECT", "START_MONITORING", "CHECK_HEALTH", "AUTO_FIX_ISSUES", "ADD_FEATURE", "GIT_COMMIT", "RUN_TESTS", "BACKUP_PROJECT"}

\* an action identifier that matches no branch
UnknownAction == "RESTART"

DeployTypes == {S_github_pages, S_docker, S_vercel, S_other}

IssueTypes == {S_build_failure, S_deployment_failure, S_database_connection, S_other}

Urls == {Url1, Url2, <<>>}

FileMappings == {<<>>, <<<<Path1, Content1>>>>, <<<<Path2, Content1>>, <<Path1, Content1>>>>}

\* the payloads with every key the action's branch subscripts
FullPayloads(a) ==
    CASE a = "CREATE_FILE" -> {[path |-> Path2, content |-> Content1]}
      [] a = "RUN_COMMAND" -> {[command |-> S_ls]}
      [] a = "DEPLOY_PROJECT" -> {[deploy_type |-> d] : d \in DeployTypes}
      [] a = "START_MONITORING" -> {[url |-> u] : u \in Urls}
      [] a = "AUTO_FIX_ISSUES" -> {[issue_type |-> i] : i \in IssueTypes}
      [] a = "ADD_FEATURE" -> {[feature_name |-> S_feat, files |-> m] : m \in FileMappings}
      [] a = "GIT_COMMIT" -> {[message |-> S_msg]}
      [] OTHER -> {EmptyPayload}

Payloads(a) == UNION {SubMappings(f) : f \in FullPayloads(a)}

\* the parsed instructions: every action with every payload, and objects lacking a member
Instructions ==
    UNION {{[action |-> a, payload |-> p] : p \in Payloads(a)} : a \in Actions \cup {UnknownAction}}
    \cup {Restrict([action |-> "RUN_TESTS", payload |-> EmptyPayload], K) : K \in {{"action"}, {"payload"}}}

\* json.loads (line 216) of the lines that are not JSON objects
JsonLoadsText(text) == IF text = T_42 THEN [t |-> "number", obj |-> EmptyPayload] ELSE [t |-> "invalid", obj |-> EmptyPayload]

\* a line: what input() does (returns text, or raises EOFError) and what json.loads makes of the text
Lines ==
    {[read |-> "line", text |-> x, json |-> JsonLoadsText(x)] : x \in {T_exit, T_exit_sp, T_exits, T_42, <<>>}}
    \cup {[read |-> "line", text |-> T_object, json |-> [t |-> "object", obj |-> i]] : i \in Instructions}
    \cup {[read |-> "eof", text |-> <<>>, json |-> JsonLoadsText(<<>>)]}

\* the test of line 212 as it would be without .lower()
IsExit_CaseSensitive(user_input) == user_input = S_exit

\* user_input.lower() == 'exit' (line 212)
IsExit(user_input) == Lower(user_input) = S_exit

\* the lines that bear on monitoring: those that end the loop, START_MONITORING with
\* and without its url, CHECK_HEALTH, and a deployment that changes the endpoint
MonitoringLines ==
    {l \in Lines : \/ l.read = "line" /\ IsExit(Strip(l.text))
                   \/ /\ l.json.t = "object"
                      /\ DOMAIN l.json.obj = {"action", "payload"}
                      /\ \/ l.json.obj.action \in {"START_MONITORING", "CHECK_HEALTH"}
                         \/ l.json.obj = [action |-> "DEPLOY_PROJECT", payload |-> [deploy_type |-> S_docker]]}

\* the lines that end the loop; they alone are read once MaxInstr lines have been
ExitLines == {l \in Lines : l.read = "line" /\ IsExit(Strip(l.text))}

HttpOutcomes ==
    {[kind |-> "response", code |-> 200, text |-> <<>>],
     [kind |-> "response", code |-> 500, text |-> <<>>],
     [kind |-> "error", code |-> 0, text |-> S_TimedOut],
     [kind |-> "error", code |-> 0, text |-> S_TlsAlert]}

DefaultEnv == [so |-> <<>>, se |-> <<>>, bad |-> {}, http |-> [kind |-> "response", code |-> 200, text |-> <<>>], ts |-> S_ts, oserr |-> S_PermissionDenied]

\* the paths an instruction names
PathsOf(obj) ==
    IF "payload" \notin DOMAIN obj THEN {}
    ELSE (IF "path" \in DOMAIN obj.payload THEN {obj.payload.path} ELSE {})
         \cup (IF "files" \in DOMAIN obj.payload THEN {obj.payload.files[i][1] : i \in 1..Len(obj.payload.files)} ELSE {})

\* the environment outcomes that the line's handler can observe
Envs(line) ==
    LET a == IF line.json.t = "object" /\ "action" \in DOMAIN line.json.obj THEN line.json.obj.action ELSE ""
    IN CASE a \in {"RUN_COMMAND", "RUN_TESTS"} -> {[DefaultEnv EXCEPT !.so = s] : s \in {<<>>, <<"o">>}}
         [] a \in {"CREATE_FILE", "ADD_FEATURE"} -> {[DefaultEnv EXCEPT !.bad = s] : s \in {{}, {Path1}, {Path2}} \cap SUBSET PathsOf(line.json.obj)}
         [] a = "AUTO_FIX_ISSUES" -> {[DefaultEnv EXCEPT !.bad = s] : s \in {{}, {S_DbFixPath}}}
         [] a = "CHECK_HEALTH" -> {[DefaultEnv EXCEPT !.http = h] : h \in HttpOutcomes}
         [] OTHER -> {DefaultEnv}

---------------------------------------------------------------------------
(* The read-evaluate loop of start_ai_lifecycle_bridge (lines 208-224).    *)

\* what one iteration does: the bridge afterwards, whether it breaks, what it prints
Iteration(b, kind, brk, text, action, payload, result) ==
    [b |-> b, kind |-> kind, brk |-> brk, printed |-> text, action |-> action, payload |-> payload, result |-> result]

\* one iteration of the while loop (lines 209-224)
LoopBody(b, line, env) ==
    IF line.read = "eof"
    THEN Iteration(b, "read_error", FALSE, S_MainError \o S_EofText, "", EmptyPayload, None)
    ELSE LET user_input == Strip(line.text)
         IN IF IsExit(user_input)
            THEN Iteration([b EXCEPT !.monitoring_active = FALSE], "exit", TRUE, None, "", EmptyPayload, None)
            ELSE LET instruction == line.json
                 IN IF instruction.t = "invalid"
                    THEN Iteration(b, "invalid_json", FALSE, S_InvalidJson, "", EmptyPayload, None)
                    ELSE IF instruction.t # "object"
                    THEN Iteration(b, "main_error", FALSE, S_MainError \o S_NotSubscriptable, "", EmptyPayload, None)
                    ELSE LET k == FirstMissing(instruction.obj, <<"action", "payload">>)
                         IN IF k # ""
                            THEN Iteration(b, "main_error", FALSE, S_MainError \o KeyErrorText(k), "", EmptyPayload, None)
                            ELSE LET o == execute_ai_instruction(b, env, instruction.obj.action, instruction.obj.payload)
                                 IN IF o.raised
                                    THEN Iteration(o.b, "escaped", FALSE, S_MainError \o o.val, instruction.obj.action, instruction.obj.payload, None)
                                    ELSE Iteration(o.b, "dispatched", FALSE, S_Result \o Str(o.val), instruction.obj.action, instruction.obj.payload, o.val)

---------------------------------------------------------------------------
(* State.                                                                  *)

Threads == 1..MaxThreads

Running == {t \in Threads : pc[t] \in {"test", "check", "report"}}

Born == {t \in Threads : pc[t] # "unborn"}

\* self, with the trace of a dispatch empty
Self == [deployment_url |-> deployment_url, monitoring_active |-> monitoring_active, log |-> log, fs |-> fs, cmds |-> <<>>, gets |-> <<>>, spawned |-> <<>>]

NoLast == [kind |-> "none", action |-> "", payload |-> EmptyPayload, env |-> DefaultEnv, text |-> <<>>, result |-> None, logged |-> 0, cmds |-> <<>>, gets |-> <<>>, spawned |-> 0, urlBefore |-> None, activeBefore |-> FALSE]

\* __init__ and setup_bridge (lines 16-27), then line 193: the loop is about to read
Init ==
    /\ deployment_url = None
    /\ monitoring_active = FALSE
    /\ log = <<S_FULL_LIFECYCLE_ACTIVE>>
    /\ fs = {}
    /\ pc = [t \in Threads |-> "unborn"]
    /\ health = [t \in Threads |-> None]
    /\ started = [t \in Threads |-> None]
    /\ polled = [t \in Threads |-> None]
    /\ mainpc = "reading"
    /\ last = NoLast
    /\ printed = None
    /\ nInstr = 0
    /\ nStarts = 0
    /\ nPolls = 0

\* one iteration of the loop on one input line, the dispatched handler included;
\* threading.Thread(...).start() (line 124) puts each spawned thread at its loop test
Read(lines) ==
    /\ mainpc = "reading"
    /\ \E line \in (IF nInstr < MaxInstr THEN lines ELSE ExitLines) : \E env \in Envs(line) :
       \E r \in {LoopBody(Self, line, env)} : \E n \in {Cardinality(Born)} :
            /\ n + Len(r.b.spawned) <= MaxThreads
            /\ deployment_url' = r.b.deployment_url
            /\ monitoring_active' = r.b.monitoring_active
            /\ log' = r.b.log
            /\ fs' = r.b.fs
            /\ pc' = [t \in Threads |-> IF t > n /\ t <= n + Len(r.b.spawned) THEN "test" ELSE pc[t]]
            /\ started' = [t \in Threads |-> IF t > n /\ t <= n + Len(r.b.spawned) THEN r.b.spawned[t - n] ELSE started[t]]
            /\ mainpc' = IF r.brk THEN "returned" ELSE "reading"
            /\ last' = [kind |-> r.kind, action |-> r.action, payload |-> r.payload, env |-> env, text |-> line.text,
                        result |-> r.result, logged |-> Len(r.b.log) - Len(log), cmds |-> r.b.cmds, gets |-> r.b.gets,
                        spawned |-> Len(r.b.spawned), urlBefore |-> deployment_url, activeBefore |-> monitoring_active]
            /\ printed' = r.printed
            /\ nInstr' = IF r.brk THEN nInstr ELSE nInstr + 1
            /\ nStarts' = IF r.kind = "dispatched" /\ r.action = "START_MONITORING" /\ StartsWith(r.result, S_MonitoringStarted) THEN nStarts + 1 ELSE nStarts
            /\ UNCHANGED <<health, polled, nPolls>>

\* the loop reads any of the lines
ReadLine == Read(Lines)

\* the loop reads one of the lines that bear on monitoring
ReadMonitoringLine == Read(MonitoringLines)

\* the loop test as it would be if it did not read the flag
LoopCondition_Forever(active) == TRUE

\* while self.monitoring_active (line 117)
LoopCondition(active) == active

\* the bridge a poll thread would read if monitor() kept the url it was started with
MonitorSelf_OwnUrl(t) == [Self EXCEPT !.deployment_url = started[t]]

\* the bridge a poll thread's closure reads: self, whatever url the thread was started with
MonitorSelf(t) == Self

\* monitor() evaluates its loop test (line 117)
MonitorTest(t) ==
    /\ pc[t] = "test"
    /\ IF LoopCondition(monitoring_active)
       THEN /\ nPolls < MaxPolls
            /\ pc' = [pc EXCEPT ![t] = "check"]
            /\ nPolls' = nPolls + 1
       ELSE /\ pc' = [pc EXCEPT ![t] = "done"]
            /\ nPolls' = nPolls
    /\ UNCHANGED <<deployment_url, monitoring_active, log, fs, health, started, polled, mainpc, last, printed, nInstr, nStarts>>

\* health = self.check_application_health() (line 118)
MonitorCheck(t) ==
    /\ pc[t] = "check"
    /\ \E h \in HttpOutcomes :
         LET o == check_application_health(MonitorSelf(t), [DefaultEnv EXCEPT !.http = h])
         IN /\ health' = [health EXCEPT ![t] = o.val]
            /\ polled' = [polled EXCEPT ![t] = IF o.b.gets = <<>> THEN None ELSE o.b.gets[1]]
    /\ pc' = [pc EXCEPT ![t] = "report"]
    /\ UNCHANGED <<deployment_url, monitoring_active, log, fs, started, mainpc, last, printed, nInstr, nStarts, nPolls>>

\* if "ERROR" in health: log_status(...) (lines 119-120)
ReportsIssue(h) == Contains(h, S_ERROR)

\* the rest of the iteration (lines 119-122): the report, then time.sleep(60)
MonitorReport(t) ==
    /\ pc[t] = "report"
    /\ log' = IF ReportsIssue(health[t]) THEN log_status(Self, S_HEALTH_ISSUE \o health[t]).log ELSE log
    /\ health' = [health EXCEPT ![t] = None]
    /\ pc' = [pc EXCEPT ![t] = "test"]
    /\ UNCHANGED <<deployment_url, monitoring_active, fs, started, polled, mainpc, last, printed, nInstr, nStarts, nPolls>>

\* lines 226-227 with daemon=True (line 124): when start_ai_lifecycle_bridge has returned
\* and the interpreter exits, the poll threads still running end with it (with none
\* running the exit changes nothing the model records, and the step is left out)
InterpreterExit ==
    /\ mainpc = "returned"
    /\ Running # {}
    /\ mainpc' = "exited"
    /\ pc' = [t \in Threads |-> IF t \in Running THEN "killed" ELSE pc[t]]
    /\ UNCHANGED <<deployment_url, monitoring_active, log, fs, health, started, polled, last, printed, nInstr, nStarts, nPolls>>

Monitor == \E t \in Threads : MonitorTest(t) \/ MonitorCheck(t) \/ MonitorReport(t)

Next == ReadLine \/ Monitor \/ InterpreterExit

Spec == Init /\ [][Next]_vars

NextMonitoring == ReadMonitoringLine \/ Monitor \/ InterpreterExit

\* the program on the lines that bear on monitoring, with the poll threads scheduled:
\* while some poll thread can take a step, one does
FairSpec == Init /\ [][NextMonitoring]_vars /\ WF_vars(Monitor)


---------------------------------------------------------------------------
(* Properties.                                                             *)

\* the latest loop iteration called execute_ai_instruction and it returned
Dispatched == last.kind = "dispatched"

\* the latest instruction's payload has every key its branch subscripts
KeysPresent == FirstMissing(last.payload, RequiredKeys(last.action)) = ""

\* the actions the claim calls state-changing
StateChanging == Actions \ {"CHECK_HEALTH"}

\* v is a string with at least one character
NonEmptyString(v) == v # None /\ Len(v) > 0

S_ErrorColon == <<"E", "r", "r", "o", "r", ":">>

KnownDeployTypes == {S_github_pages, S_docker, S_vercel}

RECURSIVE WrittenBeforeFailure(_, _)
\* how many files of the mapping are written before the first write that fails
WrittenBeforeFailure(items, bad) ==
    IF items = <<>> \/ Head(items)[1] \in bad THEN 0 ELSE 1 + WrittenBeforeFailure(Tail(items), bad)

\* the log records a dispatch of the latest instruction appends, counted from its
\* action, payload and the file writes that fail
ExpectedRecords ==
    LET p == last.payload
        bad == last.env.bad
    IN CASE last.action = "CREATE_FILE" -> IF p.path \in bad THEN 0 ELSE 1
         [] last.action \in {"RUN_COMMAND", "RUN_TESTS"} -> 1
         [] last.action = "DEPLOY_PROJECT" -> IF p.deploy_type \in KnownDeployTypes THEN 2 ELSE 1
         [] last.action \in {"START_MONITORING", "CHECK_HEALTH"} -> 0
         [] last.action = "AUTO_FIX_ISSUES" ->
              IF p.issue_type = S_deployment_failure THEN 3
              ELSE IF p.issue_type = S_build_failure THEN 2
              ELSE IF p.issue_type = S_database_connection THEN (IF S_DbFixPath \in bad THEN 1 ELSE 2)
              ELSE 1
         [] last.action = "ADD_FEATURE" ->
              LET w == WrittenBeforeFailure(p.files, bad)
              IN IF w = Len(p.files) THEN 1 + w + 2 ELSE 1 + w
         [] last.action = "BACKUP_PROJECT" -> 2
         [] last.action = "GIT_COMMIT" -> 3

\* C1 as stated: a recognized action dispatched with all its required payload keys
\* returns a non-empty string, and appends exactly one log record when it is one of
\* the nine state-changing actions.
C1_ExactlyOneRecord ==
    (Dispatched /\ last.action \in Actions /\ KeysPresent)
        => /\ NonEmptyString(last.result)
           /\ last.action \in StateChanging => last.logged = 1

\* C1 amended: a recognized action dispatched with all its required payload keys
\* returns a non-empty string, and the number of log records it appends is the number
\* of files it writes, shell commands it runs and deployments, auto-fixes and features
\* it starts: none for START_MONITORING, one for RUN_COMMAND, RUN_TESTS, a successful
\* CREATE_FILE and an unknown deploy or issue type, two for a known deploy type,
\* build_failure, database_connection and BACKUP_PROJECT, three for GIT_COMMIT and
\* deployment_failure, three plus one per file for ADD_FEATURE; a file write that
\* fails ends the handler there with the records appended so far.
C1_RecordsPerOperation ==
    (Dispatched /\ last.action \in Actions /\ KeysPresent)
        => /\ NonEmptyString(last.result)
           /\ last.logged = ExpectedRecords

\* ADD_FEATURE with two files, both written, has appended five records
C1_Witness ==
    /\ Dispatched /\ last.action = "ADD_FEATURE" /\ KeysPresent
    /\ Len(last.payload.files) = 2 /\ last.logged = 5
    /\ NonEmptyString(last.result)

\* C2: a recognized action that has required payload keys, dispatched with one of
\* them missing, makes execute_ai_instruction return a string that begins with
\* "Error:", and no exception leaves execute_ai_instruction.
C2_MissingKeyIsError ==
    (last.kind \in {"dispatched", "escaped"} /\ last.action \in Actions
     /\ RequiredKeys(last.action) # <<>> /\ ~KeysPresent)
        => /\ last.kind = "dispatched"
           /\ StartsWith(last.result, S_ErrorColon)

\* CREATE_FILE without content has returned Error: 'content'
C2_Witness ==
    /\ Dispatched /\ last.action = "CREATE_FILE"
    /\ DOMAIN last.payload = {"path"}
    /\ last.result = S_ErrorPrefix \o KeyErrorText("content")

\* the health check's result is the application-issue or the application-error result
IsErrorResult(h) == StartsWith(h, S_AppIssue) \/ StartsWith(h, S_AppError)

\* C3 as stated: a poll whose health check returned the application-issue result (a
\* status other than 200) or the application-error result (a transport failure)
\* appends one HEALTH_ISSUE record, and a poll with a healthy result appends none.
C3_ErrorResultIsLogged ==
    [][\A t \in Threads :
         (pc[t] = "report" /\ pc'[t] = "test")
            => log' = IF IsErrorResult(health[t]) THEN Append(log, S_HEALTH_ISSUE \o health[t]) ELSE log]_vars

\* C4: while the loop is reading (no stop has happened), as many poll loops are
\* running as START_MONITORING dispatches have returned their confirmation; no
\* dispatch stops or reuses a loop.
C4_OneLoopPerStart ==
    mainpc = "reading" => /\ Cardinality(Running) = nStarts
                          /\ Born = Running
                          /\ nStarts > 0 => monitoring_active

\* two START_MONITORING dispatches have left two poll loops running
C4_Witness == mainpc = "reading" /\ nStarts = 2 /\ Cardinality(Running) = 2 /\ last.action = "START_MONITORING"

\* the 'exit' branch (line 213) has run
Cleared == mainpc # "reading"

\* C5 as stated: once the flag has been cleared no poll loop performs a further
\* health check or appends a further log record.
C5_NothingAfterClear ==
    [][Cleared => /\ \A t \in Threads : ~(pc[t] = "check" /\ pc'[t] = "report")
                  /\ log' = log]_vars

\* C5 amended: the flag is cleared only by the 'exit' input and stays cleared; once
\* it is cleared no poll loop begins another iteration, but a loop that had passed
\* its loop test completes that iteration (one health check and, if it reports, one
\* log record); every poll loop eventually leaves its loop or ends with the
\* interpreter; and a poll loop leaves its loop only when the flag is clear.
C5_StopsAtNextTest ==
    /\ [][(monitoring_active /\ ~monitoring_active') => (mainpc = "reading" /\ mainpc' = "returned")]_vars
    /\ [](Cleared => ~monitoring_active)
    /\ [][Cleared => \A t \in Threads : pc'[t] = "check" => pc[t] = "check"]_vars
    /\ [][\A t \in Threads : (pc[t] # "done" /\ pc'[t] = "done") => (pc[t] = "test" /\ ~monitoring_active)]_vars
    /\ (Cleared ~> (Running = {}))

\* a poll loop that was past its loop test when the flag was cleared has made its
\* health check since and has now left the loop
C5_Witness == \E t \in Threads : pc[t] = "done" /\ polled[t] # None /\ mainpc = "returned"

\* the endpoint and shell recipe of each known deploy type (lines 91-106)
EndpointOf(d) == IF d = S_github_pages THEN S_GhPagesUrl ELSE IF d = S_docker THEN S_DockerUrl ELSE S_VercelUrl

RecipeOf(d) == IF d = S_github_pages THEN S_GhPagesCmd ELSE IF d = S_docker THEN S_DockerCmd ELSE S_VercelCmd

\* the latest instruction was a DEPLOY_PROJECT that returned a confirmation
Deployed == Dispatched /\ last.action = "DEPLOY_PROJECT" /\ KeysPresent /\ ~StartsWith(last.result, S_ErrorColon)

\* the latest instruction was a START_MONITORING that returned a confirmation
MonitoringStarted == Dispatched /\ last.action = "START_MONITORING" /\ KeysPresent /\ ~StartsWith(last.result, S_ErrorColon)

\* C6 as stated: every DEPLOY_PROJECT that returns a confirmation, whatever its
\* deploy_type, has run a shell recipe, has overwritten the endpoint, and its
\* confirmation contains the endpoint; START_MONITORING overwrites the endpoint with
\* its url.
C6_EveryTypeSetsEndpoint ==
    /\ Deployed => /\ last.cmds # <<>>
                   /\ deployment_url # None
                   /\ Contains(last.result, deployment_url)
    /\ MonitoringStarted => deployment_url = last.payload.url

\* C6 amended: a DEPLOY_PROJECT of type github_pages, docker or vercel that returns
\* a confirmation has run that type's shell recipe, has overwritten the endpoint with
\* that type's endpoint string and its confirmation contains the endpoint; for any
\* other deploy_type it runs no command, leaves the endpoint as it was and its
\* confirmation contains the deploy_type, not an endpoint; START_MONITORING
\* overwrites the endpoint with its url.
C6_KnownTypesSetEndpoint ==
    /\ (Deployed /\ last.payload.deploy_type \in KnownDeployTypes)
          => /\ last.cmds = <<RecipeOf(last.payload.deploy_type)>>
             /\ deployment_url = EndpointOf(last.payload.deploy_type)
             /\ Contains(last.result, deployment_url)
    /\ (Deployed /\ last.payload.deploy_type \notin KnownDeployTypes)
          => /\ last.cmds = <<>>
             /\ deployment_url = last.urlBefore
             /\ Contains(last.result, last.payload.deploy_type)
    /\ MonitoringStarted => deployment_url = last.payload.url

\* a docker deployment has replaced a monitored url by the docker endpoint
C6_Witness ==
    /\ Deployed /\ last.payload.deploy_type = S_docker
    /\ last.urlBefore = Url1 /\ deployment_url = S_DockerUrl

\* the latest instruction was a CHECK_HEALTH
HealthChecked == Dispatched /\ last.action = "CHECK_HEALTH"

\* what CHECK_HEALTH returns for each way the GET ends
HealthResultFor(h) ==
    IF h.kind = "response"
    THEN IF h.code = 200 THEN last.result = S_Healthy
         ELSE StartsWith(last.result, S_AppIssue) /\ Contains(last.result, IntToStr(h.code))
    ELSE StartsWith(last.result, S_AppError) /\ Contains(last.result, h.text)

\* C7 as stated: CHECK_HEALTH returns "No deployment URL set" and requests nothing
\* when no endpoint has been recorded; otherwise it issues one GET to the recorded
\* endpoint and returns the result for how the GET ends; it changes neither the
\* endpoint, the flag nor the log.
C7_NoUrlOnlyWhenUnrecorded ==
    HealthChecked =>
        /\ IF last.urlBefore = None
           THEN last.result = S_NoDeploymentUrl /\ last.gets = <<>>
           ELSE last.gets = <<last.urlBefore>> /\ HealthResultFor(last.env.http)
        /\ deployment_url = last.urlBefore
        /\ monitoring_active = last.activeBefore
        /\ last.logged = 0

\* C7 amended: CHECK_HEALTH returns "No deployment URL set" and requests nothing
\* when no endpoint has been recorded or the recorded endpoint is the empty string;
\* otherwise it issues one GET to the recorded endpoint and returns the healthy
\* result for 200, an issue result containing the status code for another status and
\* an error result containing the failure's description for a transport failure; it
\* changes neither the endpoint, the flag nor the log.
C7_NoUrlWhenAbsentOrEmpty ==
    HealthChecked =>
        /\ IF last.urlBefore = None \/ last.urlBefore = <<>>
           THEN last.result = S_NoDeploymentUrl /\ last.gets = <<>>
           ELSE last.gets = <<last.urlBefore>> /\ HealthResultFor(last.env.http)
        /\ deployment_url = last.urlBefore
        /\ monitoring_active = last.activeBefore
        /\ last.logged = 0
        /\ last.cmds = <<>> /\ last.spawned = 0

\* CHECK_HEALTH of a recorded endpoint that answered 500 has returned the issue result
C7_Witness ==
    /\ HealthChecked /\ last.urlBefore = S_DockerUrl
    /\ last.env.http.kind = "response" /\ last.env.http.code = 500
    /\ last.gets = <<S_DockerUrl>>
    /\ last.result = S_AppIssue \o <<"5", "0", "0">>

\* the loop has ended
LoopEnded == mainpc # "reading"

\* C8 as stated: the loop ends when the input line is exit, and only then.
C8_OnlyLiteralExit == LoopEnded => last.text = S_exit

\* C8 amended: the loop ends when the input line, with surrounding whitespace
\* stripped and in lower case, is exit, and only then; a line that is not valid JSON
\* prints the fixed invalid-JSON message, which no other outcome prints, calls no
\* handler, and the loop reads on; a line whose dispatch fails, or a read that
\* fails, does not end the loop either.
C8_ExitIgnoringCaseAndSpace ==
    /\ LoopEnded <=> last.kind = "exit"
    /\ last.kind = "exit" => Lower(Strip(last.text)) = S_exit
    /\ last.kind \in {"invalid_json", "main_error", "dispatched", "escaped"} => Lower(Strip(last.text)) # S_exit
    /\ last.kind = "invalid_json" <=> printed = S_InvalidJson
    /\ last.kind = "invalid_json"
          => /\ last.action = "" /\ last.logged = 0 /\ last.cmds = <<>> /\ last.gets = <<>> /\ last.spawned = 0
             /\ deployment_url = last.urlBefore /\ monitoring_active = last.activeBefore
    /\ last.kind = "read_error" => StartsWith(printed, S_MainError)
    /\ (Dispatched /\ last.result # None /\ StartsWith(last.result, S_ErrorColon)) => printed = S_Result \o last.result

\* the line " Exit " has ended the loop
C8_Witness == mainpc = "returned" /\ last.kind = "exit" /\ last.text = T_exit_sp /\ ~monitoring_active

\* the latest instruction was rejected before a handler ran
Rejected == Dispatched /\ (last.action \notin Actions \/ ~KeysPresent)

\* C9: an instruction whose action is unrecognized returns nothing, one lacking a
\* required payload key returns an "Error:" string, and either leaves the endpoint,
\* the flag, the log, the files and the poll loops as they were.
C9_RejectedChangesNothing ==
    /\ [](Rejected => IF last.action \notin Actions THEN last.result = None ELSE StartsWith(last.result, S_ErrorColon))
    /\ [][(nInstr' # nInstr /\ Rejected') => UNCHANGED <<deployment_url, monitoring_active, log, fs, pc, started>>]_vars

\* START_MONITORING without url was rejected while a poll loop was running
C9_Witness ==
    /\ Rejected /\ last.action = "START_MONITORING" /\ Running # {}
    /\ deployment_url = Url2 /\ monitoring_active

====
